---- MODULE Spec2Model ----
(***************************************************************************)
(* Model of src/index.ts: the stream handler of the TMDB digital-release   *)
(* addon, its two outbound lookups and the date selection.                 *)
(*                                                                         *)
(* Representation.  A JavaScript string whose characters the code looks at *)
(* (args.id, release_date) is a sequence of one-character strings.  A      *)
(* value that may be null/undefined is a sequence of length 0 (absent) or  *)
(* 1 (present).  A thrown exception is a completion record with            *)
(* threw = TRUE.  A time value (Date.prototype.getTime) is a record        *)
(* [nan, day, ms]: days since 1970-01-01 and milliseconds within the day.  *)
(***************************************************************************)
EXTENDS Integers, Sequences, FiniteSets, TLC

VARIABLES
    TMDB_API_KEY,   \* index.ts:7, read once at start-up
    pc,             \* position of the handler: idle, awaitFind, awaitRelease, done
    args,           \* StreamArgs of the invocation in progress: [type, id]
    imdbId,         \* index.ts:87
    tmdbId,         \* index.ts:93, absent (<<>>) until the find call resolved
    plannedDate,    \* index.ts:107, absent until the release-dates call resolved
    now,            \* the value Date.now() gave at index.ts:134
    calls,          \* the outbound fetches issued by this invocation, in order
    findResp,       \* how the find call settled, with the head of movie_results
    releaseResp,    \* how the release-dates call settled
    failure,        \* what the try block threw in this invocation, or "none"
    streams,        \* the streams list the handler returned
    escaped,        \* TRUE when an exception left the handler
    results,        \* input of the date selection (date-selection specification)
    chosen          \* outcome of the date selection (date-selection specification)

vars == <<TMDB_API_KEY, pc, args, imdbId, tmdbId, plannedDate, now, calls,
          findResp, releaseResp, failure, streams, escaped, results, chosen>>

-----------------------------------------------------------------------------
(* Bounds of the model *)

\* longest movie_results list a find response carries
MaxMovies == 2
\* longest results list a release-dates response carries
MaxRegions == 2
\* longest release_dates list of one region entry
MaxReleases == 1

-----------------------------------------------------------------------------
(* Optional values and completions *)

None == <<>>
Some(v) == <<v>>
IsSome(o) == Len(o) = 1

Return(v) == [threw |-> FALSE, value |-> <<v>>]
Throw(why) == [threw |-> TRUE, why |-> why, value |-> <<>>]
ValueOf(c) == c.value[1]

-----------------------------------------------------------------------------
(* String.prototype.split / startsWith on character sequences *)

\* index of the first occurrence of character sep in s, 0 when there is none
RECURSIVE IndexOfFrom(_, _, _)
IndexOfFrom(s, sep, i) ==
    IF i > Len(s) THEN 0
    ELSE IF s[i] = sep THEN i
    ELSE IndexOfFrom(s, sep, i + 1)

\* s.split(sep) for a one-character separator: the list of segments
RECURSIVE Split(_, _)
Split(s, sep) ==
    LET i == IndexOfFrom(s, sep, 1)
    IN  IF i = 0 THEN <<s>>
        ELSE <<SubSeq(s, 1, i - 1)>> \o Split(SubSeq(s, i + 1, Len(s)), sep)

StartsWith(s, p) ==
    /\ Len(s) >= Len(p)
    /\ SubSeq(s, 1, Len(p)) = p

-----------------------------------------------------------------------------
(* new Date(s).getTime() for the ECMAScript date-time string format        *)
(* (YYYY-MM-DD and YYYY-MM-DDTHH:mm:ss.sssZ); any other string, or a field *)
(* out of range, gives NaN.                                                *)

DigitChars == <<"0", "1", "2", "3", "4", "5", "6", "7", "8", "9">>
IsDigit(c) == \E i \in 1..10 : DigitChars[i] = c
DigitVal(c) == (CHOOSE i \in 1..10 : DigitChars[i] = c) - 1

AllDigits(s) == \A i \in 1..Len(s) : IsDigit(s[i])

RECURSIVE NumVal(_)
NumVal(s) ==
    IF Len(s) = 0 THEN 0
    ELSE 10 * NumVal(SubSeq(s, 1, Len(s) - 1)) + DigitVal(s[Len(s)])

\* days from 1970-01-01 to the civil date y-m-d (proleptic Gregorian)
DaysFromCivil(y, m, d) ==
    LET yy  == IF m <= 2 THEN y - 1 ELSE y
        era == yy \div 400
        yoe == yy - era * 400
        mp  == IF m > 2 THEN m - 3 ELSE m + 9
        doy == (153 * mp + 2) \div 5 + d - 1
        doe == yoe * 365 + yoe \div 4 - yoe \div 100 + doy
    IN  era * 146097 + doe - 719468

NaN == [nan |-> TRUE, day |-> 0, ms |-> 0]
TimeValue(day, ms) == [nan |-> FALSE, day |-> day, ms |-> ms]

IsDateForm(s) ==
    /\ Len(s) = 10
    /\ AllDigits(SubSeq(s, 1, 4)) /\ s[5] = "-"
    /\ AllDigits(SubSeq(s, 6, 7)) /\ s[8] = "-"
    /\ AllDigits(SubSeq(s, 9, 10))

IsTimeForm(s) ==
    /\ Len(s) = 14
    /\ s[1] = "T"
    /\ AllDigits(SubSeq(s, 2, 3)) /\ s[4] = ":"
    /\ AllDigits(SubSeq(s, 5, 6)) /\ s[7] = ":"
    /\ AllDigits(SubSeq(s, 8, 9)) /\ s[10] = "."
    /\ AllDigits(SubSeq(s, 11, 13)) /\ s[14] = "Z"

DateParse(s) ==
    LET datePart == SubSeq(s, 1, 10)
        timePart == SubSeq(s, 11, Len(s))
        y   == NumVal(SubSeq(s, 1, 4))
        m   == NumVal(SubSeq(s, 6, 7))
        d   == NumVal(SubSeq(s, 9, 10))
        hh  == NumVal(SubSeq(s, 12, 13))
        mm  == NumVal(SubSeq(s, 15, 16))
        ss  == NumVal(SubSeq(s, 18, 19))
        sss == NumVal(SubSeq(s, 21, 23))
        dateOk == m \in 1..12 /\ d \in 1..31
        timeOk == hh \in 0..23 /\ mm \in 0..59 /\ ss \in 0..59
    IN  IF Len(s) = 10 /\ IsDateForm(s) /\ dateOk
        THEN TimeValue(DaysFromCivil(y, m, d), 0)
        ELSE IF Len(s) = 24 /\ IsDateForm(datePart) /\ IsTimeForm(timePart)
                /\ dateOk /\ timeOk
        THEN TimeValue(DaysFromCivil(y, m, d),
                       ((hh * 60 + mm) * 60 + ss) * 1000 + sss)
        ELSE NaN

\* a <= b on time values; FALSE when either is NaN, as in JavaScript
TimeLeq(a, b) ==
    /\ ~a.nan /\ ~b.nan
    /\ \/ a.day < b.day
       \/ a.day = b.day /\ a.ms <= b.ms

TimeLess(a, b) == TimeLeq(a, b) /\ ~TimeLeq(b, a)

-----------------------------------------------------------------------------
(* Configuration and program constants *)

TMDB_BASE_URL == "https://api.themoviedb.org/3"
TMDB_HOME == "https://www.themoviedb.org"
TMDB_MOVIE_PAGE == "https://www.themoviedb.org/movie/"

\* the release type the filter keeps (TMDB: 4 is a digital release)
DIGITAL == 4

\* a template literal: fixed text, one interpolated value, fixed text
Template(pre, arg, post) == [pre |-> pre, arg |-> arg, post |-> post]
Text(t) == Template(t, <<>>, "")

Stream(name, title, externalUrl) ==
    [name |-> name, title |-> title, externalUrl |-> externalUrl]

-----------------------------------------------------------------------------
(* Inputs: requests, provider responses, clock readings *)

Str_empty == <<>>
Id_tt1 == <<"t", "t", "1">>
Id_tt1_ep == <<"t", "t", "1", ":", "1", ":", "2">>
Id_tt == <<"t", "t">>
Id_t == <<"t">>
Id_t_colon_t == <<"t", ":", "t">>
Id_nm1 == <<"n", "m", "1">>
Id_colon_tt1 == <<":", "t", "t", "1">>
Id_kitsu == <<"k", "i", "t", "s", "u", ":", "t", "t", "1">>

ArgIds == {Str_empty, Id_tt1, Id_tt1_ep, Id_tt, Id_t, Id_t_colon_t, Id_nm1,
           Id_colon_tt1, Id_kitsu}
ArgTypes == {"movie", "series", "tv"}
ApiKeys == {"", "key"}

Date_04_01 == <<"2", "0", "2", "4", "-", "0", "4", "-", "0", "1">>
Date_05_01 == <<"2", "0", "2", "4", "-", "0", "5", "-", "0", "1">>
Date_06_01 == <<"2", "0", "2", "4", "-", "0", "6", "-", "0", "1">>
Date_05_01_Z == <<"2", "0", "2", "4", "-", "0", "5", "-", "0", "1", "T", "0", "0", ":", "0", "0", ":", "0", "0", ".", "0", "0", "0", "Z">>
Date_bad_month == <<"2", "0", "2", "4", "-", "1", "3", "-", "4", "5", "T", "0", "0", ":", "0", "0", ":", "0", "0", ".", "0", "0", "0", "Z">>
Date_bad_month_day == <<"2", "0", "2", "4", "-", "1", "3", "-", "4", "5">>
Date_TBD == <<"T", "B", "D">>

\* the release_date strings the provider's entries carry
ReleaseDateStrings ==
    {Str_empty, Date_04_01, Date_05_01, Date_06_01, Date_05_01_Z,
     Date_bad_month, Date_TBD}

\* Date.now() readings: before, at and after 2024-05-01T00:00:00.000Z
NowValues ==
    {TimeValue(DaysFromCivil(2024, 4, 15), 0),
     TimeValue(DaysFromCivil(2024, 5, 1), 0),
     TimeValue(DaysFromCivil(2024, 5, 1), 1)}

NoTime == NaN

\* new Date(s).getTime() on the strings above, computed once per string
TimeOf[s \in ReleaseDateStrings] == DateParse(s)
GetTime(s) == TimeOf[s]


OptionOf(S) == {None} \cup {Some(v) : v \in S}
SeqsUpTo(S, n) == UNION {[1..k -> S] : k \in 0..n}

\* what fetch() and response.json() can give: a rejected fetch, a status
\* outside 200..299, a body that is not JSON, or a JSON value
NoJson == [isNull |-> TRUE]
FailedResponses ==
    {[network |-> FALSE, status |-> 0, parses |-> FALSE, json |-> NoJson],
     [network |-> TRUE, status |-> 404, parses |-> TRUE, json |-> NoJson],
     [network |-> TRUE, status |-> 500, parses |-> FALSE, json |-> NoJson],
     [network |-> TRUE, status |-> 200, parses |-> FALSE, json |-> NoJson]}
OkResponses(Bodies) ==
    {[network |-> TRUE, status |-> 200, parses |-> TRUE, json |-> b] : b \in Bodies}

\* TmdbFindResponse (index.ts:10-12); the JSON value null is isNull = TRUE
MovieIds == {0, 603}
MovieEntries == [id : OptionOf(MovieIds)]
FindBodies ==
    {[isNull |-> TRUE, movie_results |-> None]}
    \cup [isNull : {FALSE}, movie_results : OptionOf(SeqsUpTo(MovieEntries, MaxMovies))]
FindResponses == FailedResponses \cup OkResponses(FindBodies)

\* TmdbReleaseDatesResponse (index.ts:14-19)
RegionCodes == {"US", "DE"}
ReleaseEntries(Dates, Others) ==
    [release_date : Dates, type : {DIGITAL}] \cup Others
RegionEntries(Dates, Others) ==
    [iso_3166_1 : RegionCodes,
     release_dates : OptionOf(SeqsUpTo(ReleaseEntries(Dates, Others), MaxReleases))]
ResultsLists(Dates, Others) == SeqsUpTo(RegionEntries(Dates, Others), MaxRegions)
ReleaseBodies(Dates, Others) ==
    {[isNull |-> TRUE, results |-> None]}
    \cup [isNull : {FALSE}, results : OptionOf(ResultsLists(Dates, Others))]

\* a release that is not digital (TMDB: 3 is a theatrical release)
TheatricalEntries == [release_date : {Date_04_01}, type : {3}]

\* the release_date strings of the responses the handler is run against
HandlerDateStrings == {Date_04_01, Date_05_01_Z, Date_bad_month, Date_TBD}
ReleaseResponses ==
    FailedResponses \cup OkResponses(ReleaseBodies(HandlerDateStrings, {}))

-----------------------------------------------------------------------------
(* fetchJson, index.ts:34-40 *)

ResponseOk(status) == status \in 200..299

fetchJson(resp) ==
    IF ~resp.network THEN Throw("network")
    ELSE IF ~ResponseOk(resp.status) THEN Throw("status")
    ELSE IF ~resp.parses THEN Throw("json")
    ELSE Return(resp.json)

-----------------------------------------------------------------------------
(* getTmdbIdFromImdb, index.ts:42-46 *)

FindUrl(id) ==
    [base |-> TMDB_BASE_URL, op |-> "find", arg |-> id, api_key |-> TMDB_API_KEY]

\* variant: data.movie_results[0].id, without the optional chaining
getTmdbIdFromImdb_unchained(resp) ==
    LET c == fetchJson(resp)
        data == ValueOf(c)
    IN  IF c.threw THEN c
        ELSE IF data.isNull THEN Throw("shape")
        ELSE IF ~IsSome(data.movie_results) THEN Throw("shape")
        ELSE IF Len(data.movie_results[1]) = 0 THEN Throw("shape")
        ELSE Return(data.movie_results[1][1].id)

\* data.movie_results?.[0]?.id ?? null; reading a property of null throws
getTmdbIdFromImdb(resp) ==
    LET c == fetchJson(resp)
        data == ValueOf(c)
    IN  IF c.threw THEN c
        ELSE IF data.isNull THEN Throw("shape")
        ELSE IF ~IsSome(data.movie_results) THEN Return(None)
        ELSE IF Len(data.movie_results[1]) = 0 THEN Return(None)
        ELSE Return(data.movie_results[1][1].id)

-----------------------------------------------------------------------------
(* getDigitalReleaseDate, index.ts:48-68 *)

ReleaseDatesUrl(id) ==
    [base |-> TMDB_BASE_URL, op |-> "release_dates", arg |-> <<id>>,
     api_key |-> TMDB_API_KEY]

\* items.flatMap((result) => result.release_dates ?? [])
RECURSIVE FlatMapReleaseDates(_)
FlatMapReleaseDates(items) ==
    IF Len(items) = 0 THEN <<>>
    ELSE (IF IsSome(items[1].release_dates) THEN items[1].release_dates[1] ELSE <<>>)
         \o FlatMapReleaseDates(Tail(items))

IsDigitalWithDate(release) ==
    release.type = DIGITAL /\ Len(release.release_date) > 0

getDigitalDates(items) ==
    LET kept == SelectSeq(FlatMapReleaseDates(items), IsDigitalWithDate)
    IN  [i \in 1..Len(kept) |-> kept[i].release_date]

\* results.find((result) => result.iso_3166_1 === "US")
RECURSIVE FindUS(_)
FindUS(list) ==
    IF Len(list) = 0 THEN None
    ELSE IF list[1].iso_3166_1 = "US" THEN Some(list[1])
    ELSE FindUS(Tail(list))

\* the comparator of index.ts:66, as Array.prototype.sort reads it: the sign of
\* the difference of the two times, a NaN difference counting as +0
CompareDates(a, b) ==
    LET ta == GetTime(a)
        tb == GetTime(b)
    IN  IF ta.nan \/ tb.nan THEN 0
        ELSE IF TimeLess(ta, tb) THEN -1
        ELSE IF TimeLess(tb, ta) THEN 1
        ELSE 0

\* ECMAScript's "consistent comparator" on the elements of list
ConsistentComparator(list) ==
    LET I == 1..Len(list)
        c(i, j) == CompareDates(list[i], list[j])
    IN  \A i, j, k \in I :
            /\ (c(i, j) = 0 /\ c(j, k) = 0) => c(i, k) = 0
            /\ (c(i, j) < 0 /\ c(j, k) < 0) => c(i, k) < 0
            /\ (c(i, j) > 0 /\ c(j, k) > 0) => c(i, k) > 0

\* insert x after the last element that does not compare greater (stable)
RECURSIVE InsertSorted(_, _)
InsertSorted(sorted, x) ==
    IF Len(sorted) = 0 THEN <<x>>
    ELSE IF CompareDates(sorted[Len(sorted)], x) <= 0 THEN Append(sorted, x)
    ELSE Append(InsertSorted(SubSeq(sorted, 1, Len(sorted) - 1), x),
                sorted[Len(sorted)])

RECURSIVE StableSort(_)
StableSort(list) ==
    IF Len(list) = 0 THEN <<>>
    ELSE InsertSorted(StableSort(SubSeq(list, 1, Len(list) - 1)), list[Len(list)])

\* candidates.sort(...): the stable ascending order when the comparator is
\* consistent; otherwise the order is implementation-defined, any permutation
SortOutcomes(list) ==
    IF ConsistentComparator(list) THEN {StableSort(list)}
    ELSE {[i \in 1..Len(list) |-> list[p[i]]] : p \in Permutations(1..Len(list))}

\* the completions getDigitalReleaseDate can have on a response
getDigitalReleaseDate(resp) ==
    LET c == fetchJson(resp)
        data == ValueOf(c)
        list == IF IsSome(data.results) THEN data.results[1] ELSE <<>>
        usResult == FindUS(list)
        preferred == getDigitalDates(IF IsSome(usResult) THEN <<usResult[1]>> ELSE <<>>)
        fallback == getDigitalDates(list)
        candidates == IF Len(preferred) > 0 THEN preferred ELSE fallback
    IN  IF c.threw THEN {c}
        ELSE IF data.isNull THEN {Throw("shape")}
        ELSE IF Len(candidates) = 0 THEN {Return(None)}
        ELSE {Return(Some(sorted[1])) : sorted \in SortOutcomes(candidates)}


-----------------------------------------------------------------------------
(* The stream handler, index.ts:70-166 *)

ConfigErrorStream ==
    Stream("Configuration error", Text("TMDB_API_KEY is not set"), Text(TMDB_HOME))
NoMatchStream(id) ==
    Stream("No TMDB match", Template("No TMDB match for ", id, ""), Text(TMDB_HOME))
ErrorStream ==
    Stream("TMDB error", Text("Failed to fetch release data"), Text(TMDB_HOME))

\* tmdbUrl, index.ts:106
MoviePage(id) == Template(TMDB_MOVIE_PAGE, <<id>>, "")

NoDateStream(id) ==
    Stream("No digital date", Text("No digital release date found"), MoviePage(id))
UnparseableStream(id, shown) ==
    Stream("Not yet available", Template("Planned digital release: ", shown, ""),
           MoviePage(id))
ReleasedStream(id, shown) ==
    Stream("Digital release", Template("Released ", shown, ""), MoviePage(id))
NotYetStream(id, shown) ==
    \* the name and the title are written here without the hourglass and the dash
    Stream("Not Available Yet",
           Template("Digital release: ", shown, " - Check back after that date!"),
           MoviePage(id))

\* !tmdbId on a number | null: null and 0 are falsy
FalsyId(id) == ~IsSome(id) \/ id[1] = 0
\* !plannedDate on a string | null: null and "" are falsy
FalsyDate(date) == ~IsSome(date) \/ Len(date[1]) = 0

\* variant: plannedDate.split("T")[0], without the fallback
DateOnly_noFallback(date) == Split(date, "T")[1]

\* plannedDate.split("T")[0] || plannedDate, index.ts:120
DateOnly(date) ==
    LET first == Split(date, "T")[1]
    IN  IF Len(first) > 0 THEN first ELSE date

\* variant: a test the "" default of index.ts:7 never satisfies
MissingKey_never == FALSE

\* !TMDB_API_KEY, index.ts:71
MissingKey == TMDB_API_KEY = ""

\* variant: only the emptiness test
PrefixOk_nonEmpty(id) == Len(id) > 0

\* the negation of !imdbId || !imdbId.startsWith("tt"), index.ts:88
PrefixOk(id) == Len(id) > 0 /\ StartsWith(id, <<"t", "t">>)

\* the record kept of a settled response: how fetch and response.json() went
\* and whether the body was the JSON value null
Settled(resp) ==
    [network |-> resp.network, status |-> resp.status, parses |-> resp.parses,
     isNull |-> resp.json.isNull]

\* the same for the find response, with the first element of movie_results
SettledFind(resp) ==
    [network |-> resp.network, status |-> resp.status, parses |-> resp.parses,
     isNull |-> resp.json.isNull,
     first |-> IF resp.json.isNull THEN None
               ELSE IF ~IsSome(resp.json.movie_results) THEN None
               ELSE IF Len(resp.json.movie_results[1]) = 0 THEN None
               ELSE Some(resp.json.movie_results[1][1])]

\* variant: the catch block rethrows
Caught_rethrow == [streams |-> <<>>, escaped |-> TRUE]

\* variant: the catch block returns an empty list
Caught_empty == [streams |-> <<>>, escaped |-> FALSE]

\* the catch block, index.ts:155-165: the handler returns, nothing is rethrown
Caught == [streams |-> <<ErrorStream>>, escaped |-> FALSE]

\* variant: releaseTime < Date.now()
FormatDate_strict(id, date, t) ==
    LET dateOnly == DateOnly(date)
        releaseTime == GetTime(date)
    IN  IF releaseTime.nan THEN <<UnparseableStream(id, dateOnly)>>
        ELSE IF TimeLess(releaseTime, t) THEN <<ReleasedStream(id, dateOnly)>>
        ELSE <<NotYetStream(id, dateOnly)>>

\* index.ts:120-154, for a present, non-empty plannedDate and the clock reading t
FormatDate(id, date, t) ==
    LET dateOnly == DateOnly(date)
        releaseTime == GetTime(date)
    IN  IF releaseTime.nan THEN <<UnparseableStream(id, dateOnly)>>
        ELSE IF TimeLeq(releaseTime, t) THEN <<ReleasedStream(id, dateOnly)>>
        ELSE <<NotYetStream(id, dateOnly)>>

\* index.ts:70-93: the guards, and the find call when they all pass
Invoke(a) ==
    LET id == Split(a.id, ":")[1]
        short == MissingKey \/ a.type # "movie" \/ ~PrefixOk(id)
    IN  /\ pc \in {"idle", "done"}
        /\ args' = a
        /\ tmdbId' = None
        /\ plannedDate' = None
        /\ now' = NoTime
        /\ failure' = "none"
        /\ escaped' = FALSE
        /\ findResp' = None
        /\ releaseResp' = None
        /\ IF MissingKey
           THEN /\ streams' = <<ConfigErrorStream>>
                /\ imdbId' = <<>>
           ELSE IF a.type # "movie"
           THEN /\ streams' = <<>>
                /\ imdbId' = <<>>
           ELSE /\ streams' = <<>>
                /\ imdbId' = id
        /\ calls' = IF short THEN <<>> ELSE <<FindUrl(id)>>
        /\ pc' = IF short THEN "done" ELSE "awaitFind"
        /\ UNCHANGED <<TMDB_API_KEY, results, chosen>>

\* variant: a failed find call is issued once more
FindResponds_retry(resp) ==
    LET c == getTmdbIdFromImdb(resp)
        id == ValueOf(c)
    IN  /\ pc = "awaitFind"
        /\ findResp' = Some(SettledFind(resp))
        /\ IF c.threw /\ Len(calls) < 2
           THEN /\ calls' = Append(calls, FindUrl(imdbId))
                /\ UNCHANGED <<failure, streams, escaped, pc, tmdbId>>
           ELSE IF c.threw
           THEN /\ failure' = c.why
                /\ streams' = Caught.streams
                /\ escaped' = Caught.escaped
                /\ pc' = "done"
                /\ UNCHANGED <<tmdbId, calls>>
           ELSE /\ tmdbId' = id
                /\ IF FalsyId(id)
                   THEN /\ streams' = <<NoMatchStream(imdbId)>>
                        /\ pc' = "done"
                        /\ UNCHANGED calls
                   ELSE /\ calls' = Append(calls, ReleaseDatesUrl(id[1]))
                        /\ pc' = "awaitRelease"
                        /\ UNCHANGED streams
                /\ UNCHANGED <<failure, escaped>>
        /\ UNCHANGED <<TMDB_API_KEY, args, imdbId, plannedDate, now, releaseResp,
                       results, chosen>>

\* index.ts:93-107: the find call settles; no match, or the release-dates call
FindResponds(resp) ==
    LET c == getTmdbIdFromImdb(resp)
        id == ValueOf(c)
    IN  /\ pc = "awaitFind"
        /\ findResp' = Some(SettledFind(resp))
        /\ IF c.threw
           THEN /\ failure' = c.why
                /\ streams' = Caught.streams
                /\ escaped' = Caught.escaped
                /\ pc' = "done"
                /\ UNCHANGED <<tmdbId, calls>>
           ELSE /\ tmdbId' = id
                /\ IF FalsyId(id)
                   THEN /\ streams' = <<NoMatchStream(imdbId)>>
                        /\ pc' = "done"
                        /\ UNCHANGED calls
                   ELSE /\ calls' = Append(calls, ReleaseDatesUrl(id[1]))
                        /\ pc' = "awaitRelease"
                        /\ UNCHANGED streams
                /\ UNCHANGED <<failure, escaped>>
        /\ UNCHANGED <<TMDB_API_KEY, args, imdbId, plannedDate, now, releaseResp,
                       results, chosen>>

\* index.ts:107-165: the release-dates call settles and the handler returns;
\* t is the reading of Date.now() at index.ts:134, taken only on that path
ReleaseResponds(resp) ==
    /\ pc = "awaitRelease"
    /\ releaseResp' = Some(Settled(resp))
    /\ \E c \in getDigitalReleaseDate(resp) :
         IF c.threw
         THEN /\ failure' = c.why
              /\ streams' = Caught.streams
              /\ escaped' = Caught.escaped
              /\ UNCHANGED <<plannedDate, now>>
         ELSE /\ plannedDate' = ValueOf(c)
              /\ IF FalsyDate(ValueOf(c))
                 THEN /\ streams' = <<NoDateStream(tmdbId[1])>>
                      /\ UNCHANGED now
                 ELSE IF GetTime(ValueOf(c)[1]).nan
                 THEN /\ streams' = FormatDate(tmdbId[1], ValueOf(c)[1], now)
                      /\ UNCHANGED now
                 ELSE \E t \in NowValues :
                      /\ streams' = FormatDate(tmdbId[1], ValueOf(c)[1], t)
                      /\ now' = t
              /\ UNCHANGED <<failure, escaped>>
    /\ pc' = "done"
    /\ UNCHANGED <<TMDB_API_KEY, args, imdbId, tmdbId, calls, findResp, results, chosen>>

StreamArgs == [type : ArgTypes, id : ArgIds]

Init ==
    /\ TMDB_API_KEY \in ApiKeys
    /\ pc = "idle"
    /\ args = [type |-> "movie", id |-> <<>>]
    /\ imdbId = <<>>
    /\ tmdbId = None
    /\ plannedDate = None
    /\ now = NoTime
    /\ calls = <<>>
    /\ findResp = None
    /\ releaseResp = None
    /\ failure = "none"
    /\ streams = <<>>
    /\ escaped = FALSE
    /\ results = <<>>
    /\ chosen = <<>>

Next ==
    \/ \E a \in StreamArgs : Invoke(a)
    \/ \E resp \in FindResponses : FindResponds(resp)
    \/ \E resp \in ReleaseResponses : ReleaseResponds(resp)

Spec == Init /\ [][Next]_vars

-----------------------------------------------------------------------------
(* The date selection alone: getDigitalReleaseDate applied to every results *)
(* list within the bounds.                                                  *)

SelectDate ==
    /\ pc = "select"
    /\ chosen = <<>>
    /\ \E c \in getDigitalReleaseDate(
                  [network |-> TRUE, status |-> 200, parses |-> TRUE,
                   json |-> [isNull |-> FALSE, results |-> Some(results)]]) :
         chosen' = <<c>>
    /\ UNCHANGED <<TMDB_API_KEY, pc, args, imdbId, tmdbId, plannedDate, now, calls,
                   findResp, releaseResp, failure, streams, escaped, results>>

InitDates ==
    /\ TMDB_API_KEY = "key"
    /\ pc = "select"
    /\ args = [type |-> "movie", id |-> Id_tt1]
    /\ imdbId = Id_tt1
    /\ tmdbId = Some(603)
    /\ plannedDate = None
    /\ now = NoTime
    /\ calls = <<>>
    /\ findResp = None
    /\ releaseResp = None
    /\ failure = "none"
    /\ streams = <<>>
    /\ escaped = FALSE
    /\ results \in ResultsLists(ReleaseDateStrings, TheatricalEntries)
    /\ chosen = <<>>

NextDates == SelectDate

SpecDates == InitDates /\ [][NextDates]_vars


-----------------------------------------------------------------------------
(* Properties *)

Done == pc = "done"
KeySet == TMDB_API_KEY # ""
HomeLink == Text("https://www.themoviedb.org")
ItemLink == Template("https://www.themoviedb.org/movie/", <<tmdbId[1]>>, "")

\* a settled lookup failed: fetch rejected, status outside 200..299, body not
\* JSON, or the JSON value null where an object is read
LookupFailed(r) ==
    ~r.network \/ r.status < 200 \/ r.status > 299 \/ ~r.parses \/ r.isNull

FindFailed == IsSome(findResp) /\ LookupFailed(findResp[1])
ReleaseFailed == IsSome(releaseResp) /\ LookupFailed(releaseResp[1])
FindSucceeded == IsSome(findResp) /\ ~LookupFailed(findResp[1])

\* the find response carries a first movie result with an integer id
FirstHasId == FindSucceeded /\ IsSome(findResp[1].first) /\ IsSome(findResp[1].first[1].id)

\* plannedDate is a non-empty string
HasDate == Done /\ IsSome(plannedDate) /\ Len(plannedDate[1]) > 0

\* C1: once a request has passed the guards, a failed find or release-dates
\* lookup (rejected fetch, non-success status, malformed body) makes the handler
\* return exactly the generic error entry with the provider's landing link, and
\* no exception ever leaves the handler.
C1_FailureGivesErrorEntry ==
    /\ ~escaped
    /\ (Done /\ (FindFailed \/ ReleaseFailed)) =>
          /\ Len(streams) = 1
          /\ streams[1].name = "TMDB error"
          /\ streams[1].externalUrl = HomeLink

C1_Witness ==
    /\ Done
    /\ Len(calls) = 2
    /\ IsSome(releaseResp) /\ releaseResp[1].network /\ releaseResp[1].status = 404
    /\ Len(streams) = 1 /\ streams[1].name = "TMDB error"

\* C2: with the API credential empty, every completed request gets exactly the
\* configuration-error entry, whatever its media type and identifier.
C2_MissingKeyGivesConfigError ==
    (Done /\ TMDB_API_KEY = "") =>
        streams = <<[name |-> "Configuration error",
                     title |-> Text("TMDB_API_KEY is not set"),
                     externalUrl |-> HomeLink]>>

C2_Witness ==
    /\ Done /\ TMDB_API_KEY = ""
    /\ args = [type |-> "series", id |-> Id_nm1]
    /\ Len(streams) = 1 /\ streams[1].name = "Configuration error"

\* C3: with the credential present, a request whose type is not "movie", or
\* whose identifier does not start with "tt" (the empty identifier included),
\* gets the empty list.
C3_WrongTypeOrPrefixGivesEmpty ==
    (Done /\ KeySet /\ (args.type # "movie" \/ ~StartsWith(args.id, <<"t", "t">>))) =>
        streams = <<>>

C3_Witness ==
    /\ Done /\ KeySet
    /\ args = [type |-> "movie", id |-> Id_kitsu]
    /\ streams = <<>>

\* C5: when both lookups succeeded and the resolved date parses to a time t,
\* the response is the single "Digital release" entry when t <= now (t = now
\* included) and the single "Not Available Yet" entry when t > now; either way
\* the entry shows the date and links to the item page.
C5_ReleasedIffNotAfterNow ==
    (HasDate /\ ~DateParse(plannedDate[1]).nan) =>
        /\ Len(streams) = 1
        /\ streams[1].externalUrl = ItemLink
        /\ streams[1].title.arg = DateOnly(plannedDate[1])
        /\ streams[1].name =
              IF TimeLeq(DateParse(plannedDate[1]), now)
              THEN "Digital release" ELSE "Not Available Yet"

C5_Witness ==
    /\ HasDate
    /\ plannedDate[1] = Date_05_01_Z
    /\ now = DateParse(Date_05_01_Z)
    /\ streams[1].name = "Digital release"

\* C6: when the find call succeeds and yields no movie result, the response is
\* exactly the "No match" entry with the provider's landing link, and the
\* release-dates call is not issued.
C6_NoMatchEntry ==
    (Done /\ FindSucceeded /\ ~FirstHasId) =>
        /\ streams = <<[name |-> "No TMDB match",
                        title |-> Template("No TMDB match for ", imdbId, ""),
                        externalUrl |-> HomeLink]>>
        /\ Len(calls) = 1
        /\ releaseResp = None

C6_Witness ==
    /\ Done /\ FindSucceeded
    /\ findResp[1].first = None
    /\ Len(streams) = 1 /\ streams[1].name = "No TMDB match"

\* the text of d before its first "T", or d when there is no "T" or nothing
\* before it
BeforeT(d) ==
    LET i == IndexOfFrom(d, "T", 1)
    IN  IF i <= 1 THEN d ELSE SubSeq(d, 1, i - 1)

\* C7 as stated: when the resolved date string is non-empty and does not parse,
\* the response is the single "Not yet available" entry whose title shows the
\* raw date string unmodified, with the item-page link.
C7_ShowsRawString ==
    (HasDate /\ DateParse(plannedDate[1]).nan) =>
        /\ Len(streams) = 1
        /\ streams[1].name = "Not yet available"
        /\ streams[1].title.arg = plannedDate[1]
        /\ streams[1].externalUrl = ItemLink

\* C7 amended: when the resolved date string is non-empty and does not parse,
\* the response is the single "Not yet available" entry whose title shows the
\* part of the string before its first "T", or the whole string when it has no
\* "T" or nothing before it, with the item-page link.
C7_ShowsTextBeforeT ==
    (HasDate /\ DateParse(plannedDate[1]).nan) =>
        /\ Len(streams) = 1
        /\ streams[1].name = "Not yet available"
        /\ streams[1].title.arg = BeforeT(plannedDate[1])
        /\ streams[1].externalUrl = ItemLink

C7_Witness ==
    /\ HasDate
    /\ plannedDate[1] = Date_bad_month
    /\ streams[1].name = "Not yet available"
    /\ streams[1].title.arg = Date_bad_month_day

\* C8: a completed invocation returns zero entries in the two empty-result
\* cases of the decision table (credential present and type not "movie", or
\* identifier not starting with "tt"), only in those, and exactly one entry on
\* every other path; never two or more.
C8_OneEntryOrEmpty ==
    Done =>
        /\ Len(streams) <= 1
        /\ Len(streams) = 0 <=>
              (KeySet /\ (args.type # "movie" \/ ~StartsWith(args.id, <<"t", "t">>)))

C8_Witness ==
    /\ Done /\ KeySet
    /\ args = [type |-> "movie", id |-> Id_t_colon_t]
    /\ Len(streams) = 0

\* the request ended in the configuration-error entry or in an empty result
EndedShort ==
    Done /\ (streams = <<>> \/ (Len(streams) = 1 /\ streams[1].name = "Configuration error"))

\* C9: a request that ends in the configuration-error entry or an empty result
\* issued no outbound call; any other request issues the find call exactly
\* once, first; the release-dates call is issued at most once and only after
\* the find call returned successfully with a match; no call follows a failed
\* call.
C9_CallOrder ==
    /\ EndedShort => calls = <<>>
    /\ (Done /\ ~EndedShort) => Len(calls) >= 1
    /\ Len(calls) <= 2
    /\ \A i \in 1..Len(calls) : (calls[i].op = "find") <=> (i = 1)
    /\ Len(calls) = 2 =>
          /\ calls[2].op = "release_dates"
          /\ FirstHasId
          /\ calls[2].arg = <<findResp[1].first[1].id[1]>>
    /\ FindFailed => Len(calls) = 1
    /\ IsSome(findResp) => Len(calls) >= 1
    /\ IsSome(releaseResp) => Len(calls) = 2

C9_Witness ==
    /\ Done
    /\ Len(calls) = 2
    /\ ReleaseFailed

\* C10: whenever the find call succeeds and the first element of movie_results
\* carries an integer id, 0 included, the handler issues the release-dates call
\* for that id and does not return the "No match" entry.
C10_FirstIdIsAMatch ==
    FirstHasId =>
        /\ Len(calls) = 2
        /\ calls[2].op = "release_dates"
        /\ calls[2].arg = <<findResp[1].first[1].id[1]>>
        /\ Done => streams[1].name # "No TMDB match"

\* the dates of all events of the list with type 4 and a non-empty date, of
\* every region or of region "US" only
EventDates(list, usOnly) ==
    UNION {
        {list[i].release_dates[1][j].release_date :
            j \in {k \in 1..Len(list[i].release_dates[1]) :
                     /\ list[i].release_dates[1][k].type = 4
                     /\ list[i].release_dates[1][k].release_date # <<>>}} :
        i \in {k \in 1..Len(list) :
                 /\ IsSome(list[k].release_dates)
                 /\ (usOnly => list[k].iso_3166_1 = "US")}}

\* r is a date of S and no date of S is chronologically before it
EarliestOf(S, r) ==
    /\ r \in S
    /\ \A d \in S : ~TimeLess(DateParse(d), DateParse(r))

\* C4: getDigitalReleaseDate returns the chronologically earliest date of the
\* preferred set (all events with region "US", type 4 and a non-empty date)
\* when that set is non-empty, otherwise the earliest date of the unrestricted
\* set (the same of any region), and null exactly when both sets are empty.
C4_EarliestPreferredElseAny ==
    chosen # <<>> =>
        LET r == chosen[1].value[1]
            preferredSet == EventDates(results, TRUE)
            unrestrictedSet == EventDates(results, FALSE)
        IN  /\ ~chosen[1].threw
            /\ IF preferredSet # {} THEN IsSome(r) /\ EarliestOf(preferredSet, r[1])
               ELSE IF unrestrictedSet # {}
               THEN IsSome(r) /\ EarliestOf(unrestrictedSet, r[1])
               ELSE r = None

====
